---- MODULE Spec2Model ----
(***************************************************************************)
(* Model of stoatbot.js: the gateway WebSocketClient (connect, destroy,    *)
(* heartbeat, packet dispatch) and the REST / CDN request helpers with     *)
(* their retry loop.                                                       *)
(*                                                                         *)
(* One action is one JavaScript macrotask (an API call, a timer callback,  *)
(* a socket event, a completed network round trip) together with every     *)
(* microtask it triggers, since nothing else can run in between.           *)
(***************************************************************************)
EXTENDS Integers, Sequences, FiniteSets, TLC

\* ------------------------------------------------------------------ bounds
MaxSockets == 1      \* WebSocket objects that exist at the same time
MaxTimers  == 2      \* pending setTimeout(() => this.connect(), 1000)
MaxPending == 1      \* connect() calls suspended in `await this.client.init()`
MaxSendQ   == 2      \* send() calls suspended in `await this.reconnecting`
MaxIngest  == 1      \* Ready handlers suspended in `await Promise.all(promises)`
MaxServers == 2      \* servers in one Ready packet (SpecPackets)
RetryCap   == 3      \* Spec: connect() calls explored without an Authenticated between them
FailCap    == 11     \* SpecFail: connect() calls explored while no socket ever opens
PastCap    == 12     \* SpecCap: connect() calls explored without an Authenticated
MaxRetriesOpt == 3   \* largest options.rest.retries the user configures

\* ------------------------------------------------------- program constants
MaxRetryAttempts == 10     \* connect(): if (this.retryCount > 10)
DefaultHeartbeat == 30000  \* DEFAULT_CLIENT_OPTIONS.ws.heartbeatInterval
DefaultRetries   == 3      \* retryRequest(): this.client.options.rest?.retries ?? 3
DefaultTimeout   == 15000  \* DEFAULT_CLIENT_OPTIONS.rest.timeout
Undef            == -1     \* an option the user left out
TimeoutOpts      == {Undef, 5000}   \* options.rest.timeout: left out, or set
Statuses == {404, 429, 500, 503}   \* HTTP statuses of a failed transport call
NoStatus == 0                      \* a failure without error.status
Ok       == 200                    \* the transport call succeeded
Surfaces == {"rest", "cdn"}

SockIds  == 1..MaxSockets
Origins  == {"login", "hb", "timer"}   \* who called connect()
Times    == {1, 2}                      \* two instants returned by Date.now()
ServerIds == 1..MaxServers
UserIds   == {"self", "other"}         \* the bot's own user, and another user

VARIABLES
  ws,     \* the WebSocketClient, its sockets, timers and suspended calls
  opts,   \* client.options (fixed after construction)
  req,    \* the request a RestClient / CDNClient is working on
  last,   \* history: what the last step did, kept for a tick that lost its
          \* pong, for a rejected connect() and for what `watch` names,
          \* NoLast after any other step
  watch   \* what else is kept track of (fixed by the specification):
          \* "emit" the steps that emit an event, "send" the calls of send()
          \* and the steps that write to a socket, "cache" the member and
          \* emoji entries stored from Ready packets, "sockets" the number
          \* of WebSocket objects constructed

vars == <<ws, opts, req, last, watch>>

\* --------------------------------------------------------------- helpers
SumO(f)  == f["login"] + f["hb"] + f["timer"]

NewSock == [state |-> "FREE", lsn |-> "none", auth |-> "none",
            pinged |-> FALSE, waiters |-> {}]

IsOpen(w) == w.socket # 0 /\ w.socks[w.socket].state = "OPEN"

\* Socket slots are interchangeable: every step leaves them in one order,
\* this.socket first, the other sockets by falling Key, free slots last.
Key(r) ==
  LET st == CASE r.state = "FREE" -> 0 [] r.state = "CONNECTING" -> 1
              [] r.state = "OPEN" -> 2 [] OTHER -> 3
      ls == CASE r.lsn = "none" -> 0 [] r.lsn = "user" -> 1
              [] r.lsn = "plain" -> 2 [] OTHER -> 3
      au == CASE r.auth = "none" -> 0 [] r.auth = "sent" -> 1
              [] r.auth = "ok" -> 2 [] OTHER -> 3
      wt == (IF "login" \in r.waiters THEN 1 ELSE 0)
              + (IF "hb" \in r.waiters THEN 2 ELSE 0)
  IN (((st * 4 + ls) * 4 + au) * 2 + (IF r.pinged THEN 1 ELSE 0)) * 4 + wt

Renamed(w, pi) ==
  LET inv == [s \in SockIds |-> CHOOSE r \in SockIds : pi[r] = s]
  IN [w EXCEPT !.socks  = [s \in SockIds |-> w.socks[inv[s]]],
               !.socket = IF w.socket = 0 THEN 0 ELSE pi[w.socket],
               !.out    = [i \in 1..Len(w.out) |->
                             [w.out[i] EXCEPT !.sock = IF @ = 0 THEN 0 ELSE pi[@]]]]

Ordered(w) ==
  /\ w.socket \in {0, 1}
  /\ \A i, j \in SockIds :
       (w.socket # 0 => i > 1) /\ i < j => Key(w.socks[i]) >= Key(w.socks[j])

Canon(w) ==
  IF Ordered(w) THEN w
  ELSE Renamed(w, CHOOSE pi \in Permutations(SockIds) : Ordered(Renamed(w, pi)))

\* suspended Ready handlers, by the number of member fetches still awaited
RECURSIVE SumTo(_, _)
SumTo(f, n) == IF n = 0 THEN 0 ELSE f[n] + SumTo(f, n - 1)
SumI(f) == SumTo(f, MaxServers)

NoLast == [op |-> "init", lost |-> FALSE, res |-> "none", sres |-> "none",
           out |-> <<>>, emit |-> <<>>]

\* the history of a step: its operation, what sendHeartbeat() found, how the
\* connect() call of the step ended, how its last send() got on, the frames
\* the step wrote and the events it emitted to the consumers
Hist(op, lost, w) ==
  IF \/ lost
     \/ w.cres = "rejected"
     \/ "emit" \in watch /\ w.emit # <<>>
     \/ "send" \in watch /\ (op = "WsSend" \/ w.out # <<>>)
  THEN [op |-> op, lost |-> lost, res |-> w.cres, sres |-> w.sres,
        out |-> Canon(w).out, emit |-> w.emit]
  ELSE NoLast

\* the state a step leaves: the per-step observations are cleared
Commit(w) == [Canon(w) EXCEPT !.cres = "none", !.sres = "none", !.out = <<>>,
                               !.emit = <<>>]

\* this.client.emit(event, ...); a listener that asks for it sees w.ready
Emit(w, e) == [w EXCEPT !.emit = Append(@, [ev |-> e, ready |-> w.ready])]

\* ------------------------------------------------- WebSocketClient methods

\* a setHeartbeatTimer that arms without clearing the interval it has
SetHeartbeatTimerNoClear(w, time) ==
  IF time # -1
  THEN [w EXCEPT !.hbTimers = @ + 1, !.hbHandle = "live"]
  ELSE IF w.hbHandle = "live"
  THEN [w EXCEPT !.hbTimers = @ - 1, !.hbHandle = "stale"]
  ELSE w

\* setHeartbeatTimer(time): clear the interval the handle names, then arm
SetHeartbeatTimer(w, time) ==
  LET c == IF w.hbHandle = "live"
           THEN [w EXCEPT !.hbTimers = @ - 1, !.hbHandle = "stale"]
           ELSE w
  IN IF time # -1
     THEN [c EXCEPT !.hbTimers = @ + 1, !.hbHandle = "live"]
     ELSE c

\* socket.send(JSON.stringify(data)) on this.socket
Write(w, frame) ==
  LET s == w.socket
  IN [w EXCEPT !.out = Append(@, [sock |-> s, frame |-> frame]),
               !.socks[s].auth   = IF frame = "AUTH" /\ @ = "none" THEN "sent" ELSE @,
               !.socks[s].pinged = IF frame = "PING" THEN TRUE ELSE @]

\* a send() that asks only whether there is a socket
SendNowAnyState(w, frame) ==
  IF w.socket # 0 THEN [Write(w, frame) EXCEPT !.sres = "sent"]
  ELSE [w EXCEPT !.sres = "notOpen"]

\* the part of send() after the await: write or throw "Socket is not open"
SendNow(w, frame) ==
  IF IsOpen(w) THEN [Write(w, frame) EXCEPT !.sres = "sent"]
  ELSE [w EXCEPT !.sres = "notOpen"]

\* a send() that does not look at this.reconnecting
SendNoWait(w, frame) == SendNow(w, frame)

\* send(data): waits on this.reconnecting when it is set; the await of a
\* rejected handle throws the handle's error
Send(w, frame) ==
  IF w.reconnecting = "null" THEN SendNow(w, frame)
  ELSE IF w.reconnecting = "rejected" THEN [w EXCEPT !.sres = "failed"]
  ELSE [w EXCEPT !.sendQ = Append(@, frame), !.sres = "waiting"]

RECURSIVE Flush(_, _)
Flush(w, q) == IF q = <<>> THEN w ELSE Flush(SendNow(w, Head(q)), Tail(q))

\* the promise returned by connect() resolves
Resolve(w, o) ==
  CASE o = "login" -> [w EXCEPT !.login = "idle", !.readyAt = TRUE]
    [] o = "hb"    -> Flush([w EXCEPT !.reconnecting = "null", !.sendQ = <<>>], w.sendQ)
    [] OTHER       -> w

\* a rejection that schedules another attempt
RejectAndRetry(w, o) ==
  LET w1 == [w EXCEPT !.timers = @ + 1]
  IN CASE o = "login" -> [w1 EXCEPT !.login = "idle"]
       [] o = "hb"    -> [w1 EXCEPT !.reconnecting = "rejected", !.sendQ = <<>>]
       [] OTHER       -> w1

\* the promise returned by connect() rejects
Reject(w, o) ==
  CASE o = "login" -> [w EXCEPT !.login = "idle"]
    [] o = "hb"    -> [w EXCEPT !.reconnecting = "rejected", !.sendQ = <<>>]
    [] OTHER       -> w

\* an off-by-one ceiling: the 10th attempt is already refused
MaxRetryExceededOffByOne(rc) == rc >= MaxRetryAttempts

\* connect(): if (this.retryCount > 10)
MaxRetryExceeded(rc) == rc > MaxRetryAttempts

\* the suspended part of connect(): runs when `await this.client.init()` returns
LowestFree(w) == CHOOSE s \in SockIds :
                   /\ w.socks[s].state = "FREE"
                   /\ \A r \in SockIds : w.socks[r].state = "FREE" => s <= r

\* ws.addEventListener("open", () => resolve(this)) on the socket `s`
AddOpenListener(w, s, o) ==
  IF w.socks[s].state = "CONNECTING"
  THEN (IF o = "timer" THEN w ELSE [w EXCEPT !.socks[s].waiters = @ \cup {o}])
  ELSE w

\* const ws = (this.socket = this.socket ?? new WebSocket(url)); w.made is
\* the number of WebSocket objects constructed so far, kept track of when
\* `watch` names "sockets"
ConnectResume(w, o) ==
  IF w.socket = 0
  THEN LET s == LowestFree(w)
       IN AddOpenListener([w EXCEPT !.socket = s,
                                    !.socks[s] = [NewSock EXCEPT !.state = "CONNECTING"],
                                    !.made = IF "sockets" \in watch THEN @ + 1 ELSE @],
                          s, o)
  ELSE AddOpenListener(w, w.socket, o)

\* a connect() that constructs the WebSocket without awaiting init()
ConnectNoAwait(w, o) ==
  LET w1 == [w EXCEPT !.retryCount = @ + 1]
  IN IF MaxRetryExceeded(w1.retryCount)
       THEN Reject([w1 EXCEPT !.cres = "rejected"], o)
     ELSE IF IsOpen(w1) /\ w1.ready
       THEN Resolve([w1 EXCEPT !.cres = "resolved"], o)
     ELSE IF ~w1.token
       THEN [w1 EXCEPT !.cres = "thrown"]
     ELSE ConnectResume([w1 EXCEPT !.cres = "pending"], o)

\* connect(), up to `await this.client.init()`
Connect(w, o) ==
  LET w1 == [w EXCEPT !.retryCount = @ + 1]
  IN IF MaxRetryExceeded(w1.retryCount)
       THEN Reject([w1 EXCEPT !.cres = "rejected"], o)
     ELSE IF IsOpen(w1) /\ w1.ready
       THEN Resolve([w1 EXCEPT !.cres = "resolved"], o)
     ELSE IF ~w1.token
       THEN [w1 EXCEPT !.cres = "thrown"]
     ELSE [w1 EXCEPT !.cres = "pending", !.pendInit[o] = @ + 1]

\* a destroy() that also starts the retry count afresh
DestroyResetsRetry(w, user, k) ==
  LET w1 == [SetHeartbeatTimer(w, -1) EXCEPT !.connected = FALSE, !.ready = FALSE,
                                             !.retryCount = 0]
      w2 == IF IsOpen(w1)
            THEN [w1 EXCEPT !.socks[w1.socket] =
                                   [NewSock EXCEPT !.state = "CLOSING", !.lsn = k]]
            ELSE [w1 EXCEPT !.socket = 0]
  IN IF user THEN w2 ELSE [w2 EXCEPT !.timers = @ + 1]

\* destroy(isUserInitiated); k names the close listener it adds
Destroy(w, user, k) ==
  LET w1 == [SetHeartbeatTimer(w, -1) EXCEPT !.connected = FALSE, !.ready = FALSE]
      w2 == IF IsOpen(w1)
            THEN [w1 EXCEPT !.socks[w1.socket] =
                                   [NewSock EXCEPT !.state = "CLOSING", !.lsn = k]]
            ELSE [w1 EXCEPT !.socket = 0]
  IN IF user THEN w2 ELSE [w2 EXCEPT !.timers = @ + 1]

\* a sendHeartbeat() that ignores options.ws.reconnect
ShouldReconnectAlways(w, o) == ~w.lastPongAck

\* sendHeartbeat(): the liveness failure starts a reconnect cycle
ShouldReconnect(w, o) == ~w.lastPongAck /\ o.reconnect

\* --------------------------------------------------------------- Init
InitWs == [token |-> FALSE, readyAt |-> FALSE, login |-> "idle",
           socket |-> 0, socks |-> [s \in SockIds |-> NewSock],
           connected |-> FALSE, ready |-> FALSE, retryCount |-> 0,
           lastPongAck |-> FALSE, lastPingTimestamp |-> Undef,
           hbHandle |-> "none", hbTimers |-> 0,
           reconnecting |-> "null", sendQ |-> <<>>,
           timers |-> 0,
           pendInit |-> [o \in Origins |-> 0],
           ingest |-> [n \in ServerIds |-> 0],
           user |-> FALSE, users |-> {}, servers |-> {},
           members |-> {}, emojis |-> {}, made |-> 0,
           exited |-> FALSE, cres |-> "none", sres |-> "none",
           out |-> <<>>, emit |-> <<>>]

IdleReq == [surface |-> "rest", pc |-> "idle", retry |-> FALSE, attempt |-> 0,
            log |-> <<>>, result |-> "none"]

Init ==
  /\ opts \in [reconnect : BOOLEAN, fetchMembers : {TRUE},
               retries : {Undef}, timeout : {Undef},
               heartbeat : {Undef}]
  /\ ws = InitWs
  /\ req = IdleReq
  /\ last = NoLast
  /\ watch = {}

Fits(w, cap) ==
  /\ w.retryCount <= cap
  /\ w.timers <= MaxTimers
  /\ SumO(w.pendInit) <= MaxPending
  /\ Len(w.sendQ) <= MaxSendQ
  /\ SumI(w.ingest) <= MaxIngest

\* ------------------------------------------------------------ API calls

\* client.login(token)
Login(cap) ==
  /\ ~ws.exited /\ ws.login # "pending"
  /\ LET w0 == [ws EXCEPT !.token = TRUE, !.login = "pending"]
         w1 == Connect(w0, "login")
     IN /\ Fits(w1, cap)
        /\ ws' = Commit(w1)
        /\ last' = Hist("Login", FALSE, w1)
  /\ UNCHANGED <<opts, req, watch>>

\* client.ws.send(data)
WsSend(cap) ==
  /\ ~ws.exited
  /\ LET w1 == Send(ws, "DATA")
     IN /\ Fits(w1, cap)
        /\ ws' = Commit(w1)
        /\ last' = Hist("WsSend", FALSE, w1)
  /\ UNCHANGED <<opts, req, watch>>

\* client.destroy(): this.token = null; await this.ws.destroy(true)
ClientDestroy ==
  /\ ~ws.exited
  /\ LET w0 == [ws EXCEPT !.token = FALSE, !.user = FALSE, !.readyAt = FALSE]
         w1 == Destroy(w0, TRUE, "user")
     IN /\ ws' = Commit(w1)
        /\ last' = Hist("ClientDestroy", FALSE, w1)
  /\ UNCHANGED <<opts, req, watch>>



InitDone(o) ==
  /\ ~ws.exited /\ ws.pendInit[o] > 0
  /\ ws.socket = 0 => \E s \in SockIds : ws.socks[s].state = "FREE"
  /\ LET w0 == [ws EXCEPT !.pendInit[o] = @ - 1]
         w1 == ConnectResume(w0, o)
     IN /\ ws' = Commit(w1)
        /\ last' = Hist("InitDone", FALSE, w1)
  /\ UNCHANGED <<opts, req, watch>>

\* getConfig() fails: console.error(...); process.exit(1)
InitFail ==
  /\ ~ws.exited /\ SumO(ws.pendInit) > 0
  /\ ws' = [InitWs EXCEPT !.exited = TRUE]
  /\ last' = NoLast
  /\ UNCHANGED <<opts, req, watch>>

\* setTimeout(() => this.connect(), 1000) fires
TimerFire(cap) ==
  /\ ~ws.exited /\ ws.timers > 0
  /\ LET w0 == [ws EXCEPT !.timers = @ - 1]
         w1 == Connect(w0, "timer")
     IN /\ Fits(w1, cap)
        /\ ws' = Commit(w1)
        /\ last' = Hist("TimerFire", FALSE, w1)
  /\ UNCHANGED <<opts, req, watch>>

\* ------------------------------------------------------- socket events

\* onOpen(): if (!this.client.token) throw ...; this.send({type: Authenticate})
OnOpen(w) == IF ~w.token THEN w ELSE Send(w, "AUTH")

\* the open event: ws.onopen first, then the listeners connect() added
SockOpen(s, cap) ==
  /\ ~ws.exited /\ ws.socks[s].state = "CONNECTING"
  /\ LET w0 == [ws EXCEPT !.socks[s].state = "OPEN", !.socks[s].waiters = {}]
         w1 == OnOpen(w0)
         w2 == IF "login" \in ws.socks[s].waiters THEN Resolve(w1, "login") ELSE w1
         w3 == IF "hb" \in ws.socks[s].waiters THEN Resolve(w2, "hb") ELSE w2
     IN /\ Fits(w3, cap)
        /\ ws' = Commit(w3)
        /\ last' = Hist("SockOpen", FALSE, w3)
  /\ UNCHANGED <<opts, req, watch>>

\* the close listener destroy() added to the socket, k = its kind
CloseListener(w, k) ==
  LET w1 == [w EXCEPT !.socket = 0]
      w2 == IF k = "user" THEN w1 ELSE [w1 EXCEPT !.timers = @ + 1]
  IN IF k = "hb" /\ w2.reconnecting = "destroying"
     THEN Connect([w2 EXCEPT !.reconnecting = "connecting"], "hb")
     ELSE w2

\* the close event (unsolicited, failed connection, or after socket.close()):
\* ws.onclose = onClose -> this.destroy(), then destroy()'s own listener
SockClose(s, cap) ==
  /\ ~ws.exited /\ ws.socks[s].state \in {"CONNECTING", "OPEN", "CLOSING"}
  /\ LET k   == ws.socks[s].lsn
         w0  == [ws EXCEPT !.socks[s].state = "CLOSED"]
         w1  == Destroy(w0, FALSE, "plain")
         w2  == IF k = "none" THEN w1 ELSE CloseListener(w1, k)
         w4  == [w2 EXCEPT !.socks[s] = NewSock]
     IN /\ Fits(w4, cap)
        /\ ws' = Commit(w4)
        /\ last' = Hist("SockClose", FALSE, w4)
  /\ UNCHANGED <<opts, req, watch>>

\* ------------------------------------------------------- inbound packets
\* A packet is a record: its type, and for a Ready packet the ids in
\* packet.users and the number of (new) servers in packet.servers.
Packet(type, us, n) == [type |-> type, users |-> us, servers |-> n]

\* promises.length of a Ready packet: one s.members.fetch() per server when
\* options.fetchMembers is set
Fetches(o, p) == IF o.fetchMembers THEN p.servers ELSE 0

\* an Authenticated case that keeps the retry counter
AuthenticatedStepNoReset(w, s) ==
  [w EXCEPT !.connected = TRUE, !.socks[s].auth = "ok"]

\* case WSEvents.AUTHENTICATED
AuthenticatedStep(w, s) ==
  [w EXCEPT !.connected = TRUE, !.retryCount = 0, !.socks[s].auth = "ok"]

\* case WSEvents.PONG
PongStep(w, s) == [w EXCEPT !.lastPongAck = TRUE, !.socks[s].pinged = FALSE]

\* default: action.handle(packet) of a registered event, which emits it
EventStep(w) == Emit(w, "EVENT")

\* for (const user of packet.users): the bot's own user becomes client.user
\* when there is none yet, every other user goes to client.users
AddUsers(w, us) ==
  IF "self" \in us /\ ~w.user
  THEN [w EXCEPT !.user = TRUE, !.users = @ \cup (us \ {"self"})]
  ELSE [w EXCEPT !.users = @ \cup us]

\* this.client.options.ws?.heartbeatInterval ?? 30000
HeartbeatInterval(o) == IF o.heartbeat = Undef THEN DefaultHeartbeat ELSE o.heartbeat

\* packet.members and packet.emojis: a Ready packet carries one member entry
\* and one emoji for each of its servers; named here by their server
PacketMembers(p) == 1..p.servers
PacketEmojis(p)  == 1..p.servers

\* for (const member of packet.members) servers.cache.get(..)?.members._add,
\* for (const emoji of packet.emojis) servers.cache.get(..)?.emojis.set:
\* an entry is stored when its server is in the server cache, else skipped;
\* w.members and w.emojis are the servers whose entry has been stored, kept
\* track of when `watch` names "cache"
AddEntries(w, p) ==
  IF "cache" \in watch
  THEN [w EXCEPT !.members = @ \cup (PacketMembers(p) \cap w.servers),
                 !.emojis  = @ \cup (PacketEmojis(p) \cap w.servers)]
  ELSE w

\* case WSEvents.READY, up to `await Promise.all(promises)`
ReadySync(w, s, o, p) ==
  LET w0 == [w EXCEPT !.lastPongAck = TRUE, !.socks[s].auth = "ready"]
      w1 == AddEntries(AddUsers(w0, p.users), p)
      w2 == [w1 EXCEPT !.servers = @ \cup 1..p.servers]
      w3 == SetHeartbeatTimer(w2, HeartbeatInterval(o))
  IN IF Fetches(o, p) > 0
     THEN [w3 EXCEPT !.ingest[Fetches(o, p)] = @ + 1]
     ELSE w3

\* case WSEvents.READY, after `await Promise.all(promises)`
ReadyFinish(w) == Emit([w EXCEPT !.ready = TRUE], "READY")

\* the synchronous part of onPacket(p), up to its first await
OnPacket(w, s, o, p) ==
  CASE p.type = "Ready"         -> ReadySync(w, s, o, p)
    [] p.type = "Authenticated" -> AuthenticatedStep(w, s)
    [] p.type = "Pong"          -> PongStep(w, s)
    [] OTHER                    -> EventStep(w)

\* what onPacket(p) does in the microtask after its first await, when the
\* awaited promise is already settled: `await Promise.all([])` of a Ready
OnPacketRest(w, o, p) ==
  IF p.type = "Ready" /\ Fetches(o, p) = 0 THEN ReadyFinish(w) ELSE w

\* the server sends Ready and events on a connection it has authenticated
Serves(w, s) == w.socks[s].state = "OPEN" /\ w.socks[s].auth \in {"ok", "ready"}

Authenticated(s) ==
  /\ ~ws.exited /\ ws.socks[s].state = "OPEN" /\ ws.socks[s].auth = "sent"
  /\ ws' = AuthenticatedStep(ws, s)
  /\ last' = NoLast
  /\ UNCHANGED <<opts, req, watch>>

\* a Ready frame arrives: onMessage -> onPacket
Ready(s, us, n, cap) ==
  /\ ~ws.exited /\ Serves(ws, s)
  /\ LET p  == Packet("Ready", us, n)
         w2 == OnPacketRest(OnPacket(ws, s, opts, p), opts, p)
     IN /\ Fits(w2, cap)
        /\ ws' = Commit(w2)
        /\ last' = Hist("Ready", FALSE, w2)
  /\ UNCHANGED <<opts, req, watch>>

\* a Promise.all that settles with the first fetch
AnyFetched(n) == n >= 1

\* Promise.all(promises) resolves when the last outstanding fetch has
AllFetched(n) == n = 1

\* one s.members.fetch() of a Ready handler with n fetches outstanding resolves
ReadyDone(n) ==
  /\ ~ws.exited /\ ws.ingest[n] > 0
  /\ LET w0 == [ws EXCEPT !.ingest[n] = @ - 1]
         w1 == IF AllFetched(n)
               THEN ReadyFinish(w0)
               ELSE [w0 EXCEPT !.ingest[n - 1] = @ + 1]
     IN /\ ws' = Commit(w1)
        /\ last' = Hist("ReadyDone", FALSE, w1)
  /\ UNCHANGED <<opts, req, watch>>

\* a Ready handler that reports the failed fetch and then finishes
RejectedThenReady(w, n) ==
  ReadyFinish(Emit([w EXCEPT !.ingest[n] = @ - 1], "ERROR"))

\* Promise.all(promises) rejects with the first failed fetch: onPacket
\* rejects and the catch of onMessage emits the error
Rejected(w, n) == Emit([w EXCEPT !.ingest[n] = @ - 1], "ERROR")

\* one s.members.fetch() rejected: onPacket rejects, onMessage emits ERROR
ReadyFail(n) ==
  /\ ~ws.exited /\ ws.ingest[n] > 0
  /\ LET w1 == Rejected(ws, n)
     IN /\ ws' = Commit(w1)
        /\ last' = Hist("ReadyFail", FALSE, w1)
  /\ UNCHANGED <<opts, req, watch>>

Pong(s) ==
  /\ ~ws.exited /\ ws.socks[s].state = "OPEN" /\ ws.socks[s].pinged
  /\ ws' = PongStep(ws, s)
  /\ last' = NoLast
  /\ UNCHANGED <<opts, req, watch>>

\* an onMessage that treats a frame it cannot parse as a lost connection
OnMessageInvalidCloses(w) == Destroy(Emit(w, "ERROR"), FALSE, "plain")

\* onMessage, JSON.parse throws: emit(Events.ERROR, err); return
OnMessageInvalid(w) == Emit(w, "ERROR")

\* a frame that is not valid JSON arrives on an open socket
BadFrame(s) ==
  /\ ~ws.exited /\ ws.socks[s].state = "OPEN"
  /\ LET w1 == OnMessageInvalid(ws)
     IN /\ ws' = Commit(w1)
        /\ last' = Hist("BadFrame", FALSE, w1)
  /\ UNCHANGED <<opts, req, watch>>

\* the frame of an event the client has a handler for arrives
Event(s) ==
  /\ ~ws.exited /\ Serves(ws, s)
  /\ LET w1 == OnPacket(ws, s, opts, Packet("Event", {}, 0))
     IN /\ ws' = Commit(w1)
        /\ last' = Hist("Event", FALSE, w1)
  /\ UNCHANGED <<opts, req, watch>>

\* case WSEvents.BULK with two sub-packets:
\* packet.v.map((p) => this.onPacket(p)) runs each handler up to its first
\* await, in array order; the handlers then continue in that order
Bulk(s, p1, p2, cap) ==
  /\ ~ws.exited /\ Serves(ws, s)
  /\ LET w1 == OnPacket(ws, s, opts, p1)
         w2 == OnPacket(w1, s, opts, p2)
         w3 == OnPacketRest(w2, opts, p1)
         w4 == OnPacketRest(w3, opts, p2)
     IN /\ Fits(w4, cap)
        /\ ws' = Commit(w4)
        /\ last' = Hist("Bulk", FALSE, w4)
  /\ UNCHANGED <<opts, req, watch>>

\* ------------------------------------------------------------ heartbeat

\* the setInterval callback: sendHeartbeat(), with Date.now() = now
Heartbeat(now, cap) ==
  /\ ~ws.exited /\ ws.hbTimers > 0
  /\ now >= ws.lastPingTimestamp          \* the clock does not run backwards
  /\ LET rc  == ShouldReconnect(ws, opts)
         w1  == IF rc
                THEN [Destroy(ws, FALSE, "hb")
                        EXCEPT !.reconnecting = "destroying"]
                ELSE ws
         w2  == Send(w1, "PING")
         w3  == [w2 EXCEPT !.lastPongAck = FALSE, !.lastPingTimestamp = now]
         now1 == rc /\ ~IsOpen(ws)   \* destroy() resolved at once
         w4  == IF now1
                THEN Connect([w3 EXCEPT !.reconnecting = "connecting"], "hb")
                ELSE w3
     IN /\ Fits(w4, cap)
        /\ ws' = Commit(w4)
        /\ last' = Hist("Heartbeat", ~ws.lastPongAck, w4)
  /\ UNCHANGED <<opts, req, watch>>

Next ==
  \/ Login(RetryCap)
  \/ ClientDestroy
  \/ \E o \in Origins : InitDone(o)
  \/ InitFail
  \/ TimerFire(RetryCap)
  \/ \E s \in SockIds : SockOpen(s, RetryCap)
  \/ \E s \in SockIds : SockClose(s, RetryCap)
  \/ \E s \in SockIds : Authenticated(s)
  \/ \E s \in SockIds, n \in 0..1 : Ready(s, {}, n, RetryCap)
  \/ \E n \in ServerIds : ReadyDone(n)
  \/ \E n \in ServerIds : ReadyFail(n)
  \/ \E s \in SockIds : Pong(s)
  \/ \E t \in Times : Heartbeat(t, RetryCap)

\* the gateway while every connection attempt fails: no socket ever opens
NextFail ==
  \/ Login(FailCap)
  \/ ClientDestroy
  \/ \E o \in Origins : InitDone(o)
  \/ InitFail
  \/ TimerFire(FailCap)
  \/ \E s \in SockIds : SockClose(s, FailCap)

SpecFail == Init /\ [][NextFail]_vars

\* the same with the constructed sockets counted, where every timer fires,
\* every init() that does not fail returns and every socket that does not
\* open closes; login() and client.destroy() are the caller's to make or not
InitFailing ==
  /\ opts \in [reconnect : BOOLEAN, fetchMembers : {TRUE},
               retries : {Undef}, timeout : {Undef},
               heartbeat : {Undef}]
  /\ ws = InitWs
  /\ req = IdleReq
  /\ last = NoLast
  /\ watch = {"sockets"}

FairFail ==
  /\ WF_vars(TimerFire(FailCap))
  /\ WF_vars(\E o \in Origins : InitDone(o))
  /\ WF_vars(\E s \in SockIds : SockClose(s, FailCap))

SpecFailFair == InitFailing /\ [][NextFail]_vars /\ FairFail

\* the packet dispatcher on one connection, with full Ready packets, events
\* and Bulk packets, between heartbeat ticks and until client.destroy(); the
\* history keeps the emitted events
SubPackets ==
  {Packet("Event", {}, 0)} \cup {Packet("Ready", {}, n) : n \in 0..MaxServers}

InitPackets ==
  /\ opts \in [reconnect : {TRUE}, fetchMembers : BOOLEAN,
               retries : {Undef}, timeout : {Undef},
               heartbeat : {Undef}]
  /\ ws = InitWs
  /\ req = IdleReq
  /\ last = NoLast
  /\ watch = {"emit", "cache"}

NextPackets ==
  \/ Login(RetryCap)
  \/ ClientDestroy
  \/ \E o \in Origins : InitDone(o)
  \/ \E s \in SockIds : SockOpen(s, RetryCap)
  \/ \E s \in SockIds : Authenticated(s)
  \/ \E s \in SockIds, us \in SUBSET UserIds, n \in 0..MaxServers :
       Ready(s, us, n, RetryCap)
  \/ \E n \in ServerIds : ReadyDone(n)
  \/ \E n \in ServerIds : ReadyFail(n)
  \/ \E s \in SockIds : Event(s)
  \/ \E s \in SockIds : BadFrame(s)
  \/ \E s \in SockIds, p1, p2 \in SubPackets : Bulk(s, p1, p2, RetryCap)

SpecPackets == InitPackets /\ [][NextPackets]_vars

\* the gateway with calls of send(); the history keeps the sends and writes
InitSend ==
  /\ opts \in [reconnect : BOOLEAN, fetchMembers : {TRUE},
               retries : {Undef}, timeout : {Undef},
               heartbeat : {Undef}]
  /\ ws = InitWs
  /\ req = IdleReq
  /\ last = NoLast
  /\ watch = {"send"}

NextSend ==
  \/ WsSend(RetryCap)
  \/ Login(RetryCap)
  \/ ClientDestroy
  \/ \E o \in Origins : InitDone(o)
  \/ TimerFire(RetryCap)
  \/ \E s \in SockIds : SockOpen(s, RetryCap)
  \/ \E s \in SockIds : SockClose(s, RetryCap)
  \/ \E s \in SockIds : Authenticated(s)
  \/ \E s \in SockIds : Ready(s, {}, 0, RetryCap)
  \/ \E s \in SockIds : Pong(s)
  \/ \E t \in Times : Heartbeat(t, RetryCap)

SpecSend == InitSend /\ [][NextSend]_vars

\* -- the options object: new Client(options)
\* An options object the user passes: its `ws` and `rest` members are left
\* out (present = FALSE) or are objects in which each key is left out (Undef)
\* or set; reconnect is 1 (true) or 0 (false), a custom URL is 1.
CustomInterval == 5000
NoWs   == [present |-> FALSE, heartbeatInterval |-> Undef, reconnect |-> Undef,
           instanceURL |-> Undef]
NoRest == [present |-> FALSE, timeout |-> Undef, retries |-> Undef,
           instanceURL |-> Undef]

NumSet(r, keys) == Cardinality({k \in keys : r[k] # Undef})

\* no member, an empty one, or one with a single key
GivenWs ==
  {NoWs} \cup
  {g \in [present : {TRUE}, heartbeatInterval : {Undef, CustomInterval},
          reconnect : {Undef, 0, 1}, instanceURL : {Undef, 1}] :
     NumSet(g, {"heartbeatInterval", "reconnect", "instanceURL"}) <= 1}

GivenRest ==
  {NoRest} \cup
  {g \in [present : {TRUE}, timeout : {Undef, 5000}, retries : {Undef, 1},
          instanceURL : {Undef, 1}] :
     NumSet(g, {"timeout", "retries", "instanceURL"}) <= 1}

GivenOptions == [ws : GivenWs, rest : GivenRest]

\* DEFAULT_CLIENT_OPTIONS
DefaultOptions ==
  [ws   |-> [present |-> TRUE, heartbeatInterval |-> DefaultHeartbeat,
             reconnect |-> 1, instanceURL |-> Undef],
   rest |-> [present |-> TRUE, timeout |-> DefaultTimeout,
             retries |-> DefaultRetries, instanceURL |-> Undef]]

\* this.options = { ...DEFAULT_CLIENT_OPTIONS, ...options }: a member the
\* user passes replaces the default member as a whole
MergeOptions(given) ==
  [ws   |-> IF given.ws.present THEN given.ws ELSE DefaultOptions.ws,
   rest |-> IF given.rest.present THEN given.rest ELSE DefaultOptions.rest]

\* client.options as the core reads it: options.ws?.reconnect (truthy),
\* options.ws?.heartbeatInterval, options.rest?.retries, options.rest?.timeout
Options(given) ==
  LET m == MergeOptions(given)
  IN [reconnect |-> m.ws.reconnect = 1, fetchMembers |-> TRUE,
      retries |-> m.rest.retries, timeout |-> m.rest.timeout,
      heartbeat |-> m.ws.heartbeatInterval, given |-> given]

InitOptions ==
  /\ opts \in {Options(g) : g \in GivenOptions}
  /\ ws = InitWs
  /\ req = IdleReq
  /\ last = NoLast
  /\ watch = {}

NextOptions ==
  \/ Login(RetryCap)
  \/ \E o \in Origins : InitDone(o)
  \/ \E s \in SockIds : SockOpen(s, RetryCap)
  \/ \E s \in SockIds : SockClose(s, RetryCap)
  \/ \E s \in SockIds : Authenticated(s)
  \/ \E s \in SockIds : Ready(s, {}, 0, RetryCap)
  \/ Heartbeat(1, RetryCap)

SpecOptions == InitOptions /\ [][NextOptions]_vars

\* the gateway up to and past the retry ceiling, with auto-reconnect
InitCap ==
  /\ opts \in [reconnect : {TRUE}, fetchMembers : {TRUE},
               retries : {Undef}, timeout : {Undef},
               heartbeat : {Undef}]
  /\ ws = InitWs
  /\ req = IdleReq
  /\ last = NoLast
  /\ watch = {}

NextCap ==
  \/ Login(PastCap)
  \/ ClientDestroy
  \/ \E o \in Origins : InitDone(o)
  \/ TimerFire(PastCap)
  \/ \E s \in SockIds : SockOpen(s, PastCap)
  \/ \E s \in SockIds : SockClose(s, PastCap)
  \/ \E s \in SockIds : Authenticated(s)
  \/ \E s \in SockIds : Ready(s, {}, 0, PastCap)
  \/ Heartbeat(1, PastCap)

SpecCap == InitCap /\ [][NextCap]_vars

\* the same, where every timer fires, every init() returns, every socket
\* being opened opens or fails, and every close() completes
FairCap ==
  /\ WF_vars(TimerFire(PastCap))
  /\ WF_vars(\E o \in Origins : InitDone(o))
  /\ WF_vars(\E s \in SockIds : /\ ws.socks[s].state = "CONNECTING"
                                /\ (SockOpen(s, PastCap) \/ SockClose(s, PastCap)))
  /\ WF_vars(\E s \in SockIds : /\ ws.socks[s].state = "CLOSING"
                                /\ SockClose(s, PastCap))

SpecCapFair == InitCap /\ [][NextCap]_vars /\ FairCap

Spec == Init /\ [][Next]_vars

\* =================================================== RestClient / CDNClient
\* request() and retryRequest() of RestClient, then those of CDNClient; the
\* log records, in order, every transport call, its outcome, every elapsed
\* retry delay and every attempt refused for want of a token.

Ev(kind, v) == [kind |-> kind, v |-> v]

\* this.client.options.rest?.retries ?? 3
Retries(o) == IF o.retries = Undef THEN DefaultRetries ELSE o.retries

\* this.client.options.rest?.timeout ?? DEFAULT_CLIENT_OPTIONS.rest?.timeout
Timeout(o) == IF o.timeout = Undef THEN DefaultTimeout ELSE o.timeout

\* request(): error.status && (error.status === 429 || error.status >= 500)
IsTransient(status) == status # NoStatus /\ (status = 429 \/ status >= 500)

\* a retry loop that allows one attempt too many
RetryCapReachedLate(attempt, o) == attempt > Retries(o)

\* retryRequest(): if (attempt >= retries) throw new Error("Max retries reached")
RetryCapReached(attempt, o) == attempt >= Retries(o)

\* request(): if (retry) throw typeof error
RethrowInRetry(retry) == retry

\* retryRequest(): catch (error) { await new Promise(setTimeout(..timeout)) ...
RetryCatch(r) == [r EXCEPT !.pc = "waiting"]

Settle(r, res) == [r EXCEPT !.pc = "done", !.result = res]

\* request(..., retry = true) as called by retryRequest(attempt)
RetryAttempt(r, tok, attempt) ==
  LET r1 == [r EXCEPT !.retry = TRUE, !.attempt = attempt]
  IN IF ~tok
     THEN RetryCatch([r1 EXCEPT !.log = Append(@, Ev("noauth", 0))])
     ELSE [r1 EXCEPT !.pc = "inflight", !.log = Append(@, Ev("call", 0))]

\* retryRequest(attempt, ...)
RetryRequest(r, tok, o, attempt) ==
  IF RetryCapReached(attempt, o)
  THEN Settle([r EXCEPT !.attempt = attempt], "maxRetries")
  ELSE RetryAttempt(r, tok, attempt)

\* the catch block of request(); err is "noauth" or "http", status its status
Catch(r, tok, o, err, status) ==
  IF RethrowInRetry(r.retry) THEN RetryCatch(r)
  ELSE IF err = "http" /\ IsTransient(status) THEN RetryRequest(r, tok, o, 0)
  ELSE IF err = "http" /\ status # NoStatus THEN Settle(r, "statusError")
  ELSE IF err = "noauth" THEN Settle(r, "authRequired")
  ELSE Settle(r, "transportError")

\* -- CDNClient: the same methods as written in CDNClient.ts

\* this.client.options.rest?.retries ?? 3
CdnRetries(o) == IF o.retries = Undef THEN DefaultRetries ELSE o.retries

\* this.client.options.rest?.timeout ?? DEFAULT_CLIENT_OPTIONS.rest?.timeout
CdnTimeout(o) == IF o.timeout = Undef THEN DefaultTimeout ELSE o.timeout

\* a CDN request() that retries on 5xx only
CdnIsTransientNo429(status) == status # NoStatus /\ status >= 500

\* request(): error.status && (error.status === 429 || error.status >= 500)
CdnIsTransient(status) == status # NoStatus /\ (status = 429 \/ status >= 500)

\* retryRequest(): if (attempt >= retries) throw new Error("Max retries reached")
CdnRetryCapReached(attempt, o) == attempt >= CdnRetries(o)

\* request(..., retry = true) as called by retryRequest(attempt)
CdnRetryAttempt(r, tok, attempt) ==
  LET r1 == [r EXCEPT !.retry = TRUE, !.attempt = attempt]
  IN IF ~tok
     THEN RetryCatch([r1 EXCEPT !.log = Append(@, Ev("noauth", 0))])
     ELSE [r1 EXCEPT !.pc = "inflight", !.log = Append(@, Ev("call", 0))]

\* retryRequest(attempt, ...)
CdnRetryRequest(r, tok, o, attempt) ==
  IF CdnRetryCapReached(attempt, o)
  THEN Settle([r EXCEPT !.attempt = attempt], "maxRetries")
  ELSE CdnRetryAttempt(r, tok, attempt)

\* the catch block of request()
CdnCatch(r, tok, o, err, status) ==
  IF RethrowInRetry(r.retry) THEN RetryCatch(r)
  ELSE IF err = "http" /\ CdnIsTransient(status) THEN CdnRetryRequest(r, tok, o, 0)
  ELSE IF err = "http" /\ status # NoStatus THEN Settle(r, "statusError")
  ELSE IF err = "noauth" THEN Settle(r, "authRequired")
  ELSE Settle(r, "transportError")

\* -- the steps of a request on either surface

\* request(method, url, body, query) up to its first await or its throw
StartRequest(sf, tok, o) ==
  LET r0 == [IdleReq EXCEPT !.surface = sf]
      r1 == [r0 EXCEPT !.log = <<Ev("noauth", 0)>>]
  IN IF tok THEN [r0 EXCEPT !.pc = "inflight", !.log = <<Ev("call", 0)>>]
     ELSE IF sf = "cdn" THEN CdnCatch(r1, tok, o, "noauth", NoStatus)
     ELSE Catch(r1, tok, o, "noauth", NoStatus)

\* the transport call of r returns (Ok) or throws with the status
OnResponse(r, tok, o, status) ==
  LET r0 == [r EXCEPT !.log = Append(@, Ev("resp", status))]
  IN IF status = Ok THEN Settle(r0, "ok")
     ELSE IF r.surface = "cdn" THEN CdnCatch(r0, tok, o, "http", status)
     ELSE Catch(r0, tok, o, "http", status)

\* a retry loop that calls retryRequest(attempt, ...) again
OnDelaySameAttempt(r, tok, o) ==
  IF r.surface = "cdn"
  THEN CdnRetryRequest([r EXCEPT !.log = Append(@, Ev("wait", CdnTimeout(o)))],
                       tok, o, r.attempt)
  ELSE RetryRequest([r EXCEPT !.log = Append(@, Ev("wait", Timeout(o)))],
                    tok, o, r.attempt)

\* the retry delay of r has elapsed: retryRequest(attempt + 1, ...)
OnDelay(r, tok, o) ==
  IF r.surface = "cdn"
  THEN CdnRetryRequest([r EXCEPT !.log = Append(@, Ev("wait", CdnTimeout(o)))],
                       tok, o, r.attempt + 1)
  ELSE RetryRequest([r EXCEPT !.log = Append(@, Ev("wait", Timeout(o)))],
                    tok, o, r.attempt + 1)

\* api.get/post/... or cdn.post: request(method, url, body, query)
Request(sf) ==
  /\ req.pc = "idle"
  /\ req' = StartRequest(sf, ws.token, opts)
  /\ UNCHANGED <<ws, opts, last, watch>>

\* await this.rateLimitQueue.request(config) returns or throws
Respond(status) ==
  /\ req.pc = "inflight"
  /\ req' = OnResponse(req, ws.token, opts, status)
  /\ UNCHANGED <<ws, opts, last, watch>>

\* the setTimeout(resolve, timeout) of retryRequest() fires
DelayElapsed ==
  /\ req.pc = "waiting"
  /\ req' = OnDelay(req, ws.token, opts)
  /\ UNCHANGED <<ws, opts, last, watch>>

\* the caller has received the value or the error
Settled ==
  /\ req.pc = "done"
  /\ req' = IdleReq
  /\ UNCHANGED <<ws, opts, last, watch>>

\* BaseClient: set token(token)
SetToken(v) ==
  /\ ws.token # v
  /\ ws' = [ws EXCEPT !.token = v]
  /\ UNCHANGED <<opts, req, last, watch>>

InitRest ==
  /\ opts \in [reconnect : {TRUE}, fetchMembers : {TRUE},
               retries : {Undef} \cup 0..MaxRetriesOpt, timeout : TimeoutOpts,
               heartbeat : {Undef}]
  /\ ws = InitWs
  /\ req = IdleReq
  /\ last = NoLast
  /\ watch = {}

NextRest ==
  \/ \E sf \in Surfaces : Request(sf)
  \/ \E st \in Statuses \cup {NoStatus, Ok} : Respond(st)
  \/ DelayElapsed
  \/ Settled
  \/ \E v \in BOOLEAN : SetToken(v)

SpecRest == InitRest /\ [][NextRest]_vars

\* the same, where every transport call returns or throws and every retry
\* delay elapses: the rate limit queue settles each call it is given, and a
\* setTimeout() fires
FairRest ==
  /\ WF_vars(\E st \in Statuses \cup {NoStatus, Ok} : Respond(st))
  /\ WF_vars(DelayElapsed)

SpecRestFair == InitRest /\ [][NextRest]_vars /\ FairRest

\* requests of the primary API while the client logs in, loses its
\* connection, reconnects and is destroyed
LifeStatuses == {503, Ok}

InitLife ==
  /\ opts \in [reconnect : {TRUE}, fetchMembers : {TRUE},
               retries : {Undef}, timeout : {Undef},
               heartbeat : {Undef}]
  /\ ws = InitWs
  /\ req = IdleReq
  /\ last = NoLast
  /\ watch = {}

NextLife ==
  \/ Login(RetryCap)
  \/ ClientDestroy
  \/ \E o \in Origins : InitDone(o)
  \/ TimerFire(RetryCap)
  \/ \E s \in SockIds : SockOpen(s, RetryCap)
  \/ \E s \in SockIds : SockClose(s, RetryCap)
  \/ Request("rest")
  \/ \E st \in LifeStatuses : Respond(st)
  \/ DelayElapsed
  \/ Settled

SpecLife == InitLife /\ [][NextLife]_vars

\* ================================================================ claims

\* ---- gateway (Spec; C3 under SpecFail)

\* C1 (as stated): destroy(true) never leads to a connect() being scheduled:
\* the close event of a socket that destroy(true) closed arms no reconnect
\* timer and calls no connect().
C1_NoReconnectAfterUserDestroy ==
  [][\A s \in SockIds :
       (SockClose(s, RetryCap) /\ ws.socks[s].lsn = "user")
         => (ws'.timers = ws.timers /\ ws'.retryCount = ws.retryCount)]_vars

\* C2 (as stated): a step in which destroy() / destroy(false) runs once (the
\* onClose handler of a close event, or a heartbeat that lost its pong) arms
\* exactly one reconnect timer.
C2_ExactlyOneReconnect ==
  [][((\E s \in SockIds : SockClose(s, RetryCap))
        \/ (\E t \in Times : Heartbeat(t, RetryCap) /\ ~ws.lastPongAck /\ opts.reconnect))
       => ws'.timers - ws.timers = 1]_vars

\* C3: every connect() issued by login() or by a reconnect timer adds exactly
\* 1 to retryCount; the call that takes it past 10 rejects with the max-retry
\* error, constructs no WebSocket and does not start discovery, and no call
\* at or below 10 is rejected.
C3_RetryBudget ==
  [][(Login(FailCap) \/ TimerFire(FailCap))
       => /\ ws'.retryCount = ws.retryCount + 1
          /\ ws.retryCount >= 10
               => /\ last'.res = "rejected"
                  /\ ws'.socks = ws.socks
                  /\ ws'.socket = ws.socket
                  /\ ws'.pendInit = ws.pendInit
          /\ ws.retryCount < 10 => last'.res # "rejected"]_vars

C3_Witness ==
  /\ last.op \in {"Login", "TimerFire"}
  /\ last.res = "rejected"
  /\ ws.retryCount = 11
  /\ ws.socket = 0

\* C4 (as stated): a heartbeat tick that lost its pong, with auto-reconnect
\* enabled, causes exactly one connect(): counting the reconnect timers it
\* arms, the connect() it chains behind destroy() and the connect() it calls,
\* the tick schedules one.
ChainedConnects(w) == IF w.reconnecting = "destroying" THEN 1 ELSE 0

C4_OneReconnectCycle ==
  [][\A t \in Times :
       (Heartbeat(t, RetryCap) /\ ~ws.lastPongAck /\ opts.reconnect)
         => (ws'.timers - ws.timers) + (ws'.retryCount - ws.retryCount)
              + (ChainedConnects(ws') - ChainedConnects(ws)) = 1]_vars

\* C5: a heartbeat tick that lost its pong, with auto-reconnect disabled,
\* runs no destroy and no connect(), writes the Ping on the open socket, and
\* leaves lastPongAck false and lastPingTimestamp at the time of the tick.
C5_SilentFailure ==
  [][\A t \in Times :
       (~ws.lastPongAck /\ ~opts.reconnect /\ Heartbeat(t, RetryCap))
         => /\ ws'.timers = ws.timers
            /\ ws'.retryCount = ws.retryCount
            /\ ws'.pendInit = ws.pendInit
            /\ ws'.reconnecting = ws.reconnecting
            /\ ws'.socket = ws.socket
            /\ \A s \in SockIds : ws'.socks[s].state = ws.socks[s].state
            /\ ws'.connected = ws.connected
            /\ ws'.ready = ws.ready
            /\ ws'.hbTimers = ws.hbTimers
            /\ IsOpen(ws) => last'.out = <<[sock |-> ws.socket, frame |-> "PING"]>>
            /\ ~ws'.lastPongAck
            /\ ws'.lastPingTimestamp = t]_vars

C5_Witness ==
  /\ last.op = "Heartbeat" /\ last.lost /\ ~opts.reconnect
  /\ IsOpen(ws)
  /\ last.out = <<[sock |-> ws.socket, frame |-> "PING"]>>
  /\ ~ws.lastPongAck /\ ws.lastPingTimestamp = 2
  /\ ws.hbTimers = 1 /\ ws.timers = 0

\* ---- request dispatcher (SpecRest)

LogOf(kind)  == SelectSeq(req.log, LAMBDA e : e.kind = kind)
NumCalls     == Len(LogOf("call"))
NumResponses == Len(LogOf("resp"))
ResponseSeq  == [i \in 1..NumResponses |-> LogOf("resp")[i].v]
LastEvent    == req.log[Len(req.log)]
ConfiguredCap     == IF opts.retries = Undef THEN 3 ELSE opts.retries
ConfiguredTimeout == IF opts.timeout = Undef THEN 15000 ELSE opts.timeout

\* C6 (as stated): a request answered 503, 503, success returns the success
\* value after exactly 2 retries, each retry's transport call directly
\* preceded by a wait of the configured timeout.
C6_RetriesEachAfterDelay ==
  (req.pc = "done" /\ ResponseSeq = <<503, 503, Ok>> /\ LogOf("noauth") = <<>>)
    => /\ req.result = "ok"
       /\ NumCalls = 3
       /\ \A i \in 2..Len(req.log) :
            req.log[i].kind = "call"
              => req.log[i - 1] = Ev("wait", ConfiguredTimeout)

\* C7 (as stated): once a transport attempt, first or retried, has failed
\* with a 4xx status other than 429, the request is settled with the status
\* error.
C7_ClientErrorTerminal ==
  (req.log # <<>> /\ LastEvent.kind = "resp"
     /\ LastEvent.v \in (400..499) \ {429})
    => (req.pc = "done" /\ req.result = "statusError")

\* C8: while every attempt of a request has failed with 429 or 5xx, the
\* attempt counter is the number of failures less one (0 after the first
\* failure, one more per failure), no success is returned, and the request
\* settles exactly when the counter reaches the configured cap (default 3),
\* with the max-retries error.
AllTransient ==
  /\ NumResponses >= 1
  /\ \A i \in 1..Len(req.log) :
       \/ req.log[i].kind \in {"call", "wait"}
       \/ /\ req.log[i].kind = "resp"
          /\ (req.log[i].v = 429 \/ req.log[i].v \in 500..599)

C8_TransientRetriedToCap ==
  AllTransient
    => /\ req.result # "ok"
       /\ req.pc \in {"inflight", "waiting", "done"}
       /\ req.pc = "inflight" => (req.retry /\ req.attempt = NumResponses - 1
                                   /\ req.attempt < ConfiguredCap)
       /\ req.pc = "waiting" => (req.attempt = NumResponses - 2
                                  /\ req.attempt < ConfiguredCap)
       /\ req.pc = "done" => /\ req.result = "maxRetries"
                             /\ req.attempt = ConfiguredCap
                             /\ NumResponses = ConfiguredCap + 1

C8_Witness ==
  /\ AllTransient /\ req.pc = "done" /\ req.result = "maxRetries"
  /\ opts.retries = Undef /\ req.attempt = 3 /\ NumCalls = 4

\* C9 (as stated): an attempt made without a token, on the first try or in
\* the retry loop, settles the request at once with the auth-required error.
C9_NoTokenTerminal ==
  (req.log # <<>> /\ LastEvent.kind = "noauth")
    => (req.pc = "done" /\ req.result = "authRequired")

\* C10 (as stated): once a transport call has failed without an HTTP status
\* the request is settled with the transport error.
C10_TransportErrorTerminal ==
  (req.log # <<>> /\ LastEvent = Ev("resp", NoStatus))
    => (req.pc = "done" /\ req.result = "transportError")
\* ---- packet dispatch (SpecPackets; C12 under Spec)
NumEmits(l, e) == Cardinality({i \in 1..Len(l.emit) : l.emit[i].ev = e})

\* C11: with member prefetch, the Ready event is emitted only once every
\* member fetch of the packet has completed: the step that takes in a Ready
\* packet emits it only if it started no fetch, a resolved fetch only if it
\* was the last one outstanding of its handler, a failed fetch never; and
\* every Ready event is emitted with the readiness flag already true.
C11_ReadyAfterPrefetch ==
  [][/\ (last'.op = "Ready" /\ NumEmits(last', "READY") > 0)
          => ws'.ingest = ws.ingest
     /\ (last'.op = "ReadyDone" /\ NumEmits(last', "READY") > 0)
          => /\ ws'.ingest[1] = ws.ingest[1] - 1
             /\ \A n \in ServerIds \ {1} : ws'.ingest[n] = ws.ingest[n]
     /\ last'.op = "ReadyFail" => NumEmits(last', "READY") = 0
     /\ \A i \in 1..Len(last'.emit) :
          last'.emit[i].ev = "READY" => last'.emit[i].ready /\ ws'.ready]_vars

C11_Witness ==
  /\ last.op = "ReadyDone" /\ NumEmits(last, "READY") = 1
  /\ opts.fetchMembers /\ Cardinality(ws.servers) >= 2
  /\ ws.ready /\ SumI(ws.ingest) = 0

\* C12 (as stated): the step that takes in a Ready packet with member
\* prefetch leaves the fetches outstanding and arms no heartbeat timer; the
\* timer is armed only once the fetches have been awaited.
C12_HeartbeatAfterPrefetch ==
  [][\A s \in SockIds, n \in 0..1 :
       (Ready(s, {}, n, RetryCap) /\ Fetches(opts, Packet("Ready", {}, n)) > 0)
         => ws'.hbTimers = ws.hbTimers /\ ws'.hbHandle = ws.hbHandle]_vars

\* C13 (as stated): once a Ready packet has been taken in, every user of the
\* packet is in the user cache and every server of the packet is in the
\* server cache, which is what a Ready-event handler finds.
C13_ReadyCachesComplete ==
  [][\A s \in SockIds, us \in SUBSET UserIds, n \in 0..MaxServers :
       Ready(s, us, n, RetryCap)
         => us \subseteq ws'.users /\ 1..n \subseteq ws'.servers]_vars

\* C14 (as stated): while a Ready handler is between its first sub-item and
\* its Ready event (suspended in the member prefetch), no handler of another
\* inbound packet runs and no other event is emitted.
C14_IngestionAtomic ==
  [][\A s \in SockIds : Event(s) => SumI(ws.ingest) = 0]_vars

\* C15 (as stated): a Ready packet that arrives on a connection whose Ready
\* event has been emitted (readiness is true) emits no second Ready event.
C15_ReadyOncePerLifecycle ==
  [][\A s \in SockIds, us \in SUBSET UserIds, n \in 0..MaxServers :
       (Ready(s, us, n, RetryCap) /\ ws.ready)
         => NumEmits(last', "READY") = 0]_vars

\* C16 (as stated): in a Bulk packet <<Ready, Event>> the Ready sub-packet
\* is processed in full before the Event sub-packet is dispatched: the step
\* emits READY and then the event, or, when the Ready handler has to wait
\* for member fetches, nothing yet.
EmitSeq(l) == [i \in 1..Len(l.emit) |-> l.emit[i].ev]

C16_BulkInOrder ==
  [][\A s \in SockIds, p1, p2 \in SubPackets :
       (Bulk(s, p1, p2, RetryCap) /\ p1.type = "Ready" /\ p2.type = "Event")
         => EmitSeq(last') = (IF Fetches(opts, p1) = 0
                              THEN <<"READY", "EVENT">> ELSE <<>>)]_vars

\* ---- send() (SpecSend)
\* C17 (as stated): a send() while the connected flag is false fails with
\* the socket-not-open error and writes nothing.
C17_SendNeedsConnected ==
  [][(WsSend(RetryCap) /\ ~ws.connected)
       => last'.sres = "notOpen" /\ last'.out = <<>>]_vars

\* C17 (amended): a send() while the socket is not open and no reconnect
\* handle is set fails with the socket-not-open error, writes nothing and
\* changes nothing.
C17_SendNeedsOpenSocket ==
  [][(~IsOpen(ws) /\ ws.reconnecting = "null" /\ WsSend(RetryCap))
       => last'.sres = "notOpen" /\ last'.out = <<>> /\ ws' = ws]_vars

C17_Witness ==
  /\ last.op = "WsSend" /\ last.sres = "notOpen" /\ last.out = <<>>
  /\ ws.socket # 0 /\ ws.socks[ws.socket].state = "CONNECTING"
  /\ ws.reconnecting = "null"

\* C18: a send() issued while a reconnect is in flight writes nothing and
\* does not fail: it waits.  The waiting sends leave the queue only in the
\* step in which that reconnect completes (resolves or rejects).
C18_SendWaitsForReconnect ==
  [][/\ (ws.reconnecting \in {"destroying", "connecting"} /\ WsSend(RetryCap))
          => /\ last'.sres = "waiting" /\ last'.out = <<>>
             /\ ws'.sendQ = Append(ws.sendQ, "DATA")
     /\ Len(ws'.sendQ) < Len(ws.sendQ)
          => /\ ws.reconnecting \in {"destroying", "connecting"}
             /\ ws'.reconnecting \in {"null", "rejected"}
             /\ ws'.sendQ = <<>>]_vars

C18_Witness ==
  /\ last.op = "SockOpen" /\ ws.reconnecting = "null" /\ ws.sendQ = <<>>
  /\ \E i \in 1..Len(last.out) : last.out[i].frame = "DATA"

\* ---- connect() (Spec)
\* C19 (as stated): login() -> connect() while connected with the socket
\* open resolves at once and changes neither retryCount nor the sockets nor
\* the suspended connect() calls.
C19_ConnectNoOp ==
  [][(Login(RetryCap) /\ ws.connected /\ IsOpen(ws))
       => /\ ws'.login = "idle"
          /\ ws'.retryCount = ws.retryCount
          /\ ws'.pendInit = ws.pendInit
          /\ ws'.socket = ws.socket /\ ws'.socks = ws.socks
          /\ ws'.connected = ws.connected /\ ws'.ready = ws.ready]_vars

\* C20 (as stated): the connect() that the reconnect cycle chains behind
\* destroy(), called when there is no token, rejects (the handle becomes a
\* rejected promise) without starting discovery or opening a socket.
C20_NoTokenRejects ==
  [][\A s \in SockIds :
       (SockClose(s, RetryCap) /\ ws.socks[s].lsn = "hb"
          /\ ws.reconnecting = "destroying" /\ ~ws.token
          /\ ws.retryCount < MaxRetryAttempts)
         => /\ ws'.reconnecting = "rejected"
            /\ ws'.pendInit = ws.pendInit
            /\ ws'.socket = 0]_vars

\* ---- retry ceiling and destroy (SpecFail, Spec)
\* C21 (as stated): the connect() call that exceeds the reconnect cap
\* reports the max-retry error on the error channel and ends the pending
\* login(): after the step login() is no longer pending.
C21_CapExceededSettlesLogin ==
  [][last'.res = "rejected"
       => NumEmits(last', "ERROR") = 1 /\ ws'.login # "pending"]_vars

\* C22 (as stated): client.destroy() -> destroy(true), called while a
\* reconnect timer is armed, leaves no reconnect timer that will call
\* connect().
C22_DestroyCancelsTimers ==
  [][(ws.timers > 0 /\ ClientDestroy) => ws'.timers = 0]_vars

\* ---- heartbeat timer (Spec)
\* C23: at most one heartbeat interval is active in every reachable state,
\* and none is active unless the handle names a live interval: whenever
\* setHeartbeatTimer(-1) ran last (destroy) there is no active interval.
C23_OneHeartbeatTimer ==
  /\ ws.hbTimers <= 1
  /\ ws.hbHandle # "live" => ws.hbTimers = 0

\* a Ready packet has armed the interval after an earlier destroy() cleared
\* it and armed a reconnect timer
C23_Witness ==
  /\ ws.hbTimers = 1 /\ ws.hbHandle = "live"
  /\ ws.timers > 0

\* ---- Authenticated (Spec)
\* C24: the step that takes in an Authenticated packet leaves connected
\* true and retryCount 0, whatever retryCount was before.
C24_AuthenticatedResets ==
  [][\A s \in SockIds :
       Authenticated(s) => ws'.connected /\ ws'.retryCount = 0]_vars

\* authenticated on a connection made by a reconnect, other reconnect
\* timers still pending
C24_Witness ==
  /\ ws.connected /\ ws.retryCount = 0
  /\ ws.socket # 0 /\ ws.socks[ws.socket].auth = "ok"
  /\ ws.timers > 0

\* ---- malformed frames (SpecPackets)
\* C25: a frame that is not valid JSON is reported as exactly one event, on
\* the error channel, and changes nothing else: sockets, reconnect timers,
\* connected, ready, retryCount, heartbeat state, caches and suspended
\* handlers are as before.
C25_BadFrameOnlyReported ==
  [][\A s \in SockIds :
       BadFrame(s) => EmitSeq(last') = <<"ERROR">> /\ ws' = ws]_vars

C25_Witness ==
  /\ last.op = "BadFrame" /\ EmitSeq(last) = <<"ERROR">>
  /\ IsOpen(ws) /\ ws.connected /\ ws.ready
  /\ ws.hbTimers = 1 /\ ws.timers = 0

\* ---- discovery before the socket (Spec)
NumSocks(w)      == Cardinality({s \in SockIds : w.socks[s].state # "FREE"})
NumConnecting(w) == Cardinality({s \in SockIds : w.socks[s].state = "CONNECTING"})

\* C26: a WebSocket is constructed only in the step in which a suspended
\* `await this.client.init()` of a connect() call returns: no step that
\* calls connect() (login, reconnect timer, heartbeat, close listener)
\* constructs one, and this.socket is set from null only in such a step.
C26_SocketAfterDiscovery ==
  [][(\/ NumSocks(ws') > NumSocks(ws)
      \/ NumConnecting(ws') > NumConnecting(ws)
      \/ (ws.socket = 0 /\ ws'.socket # 0))
       => /\ SumO(ws'.pendInit) = SumO(ws.pendInit) - 1
          /\ ws'.retryCount = ws.retryCount]_vars

C26_Witness ==
  /\ ws.socket # 0 /\ ws.socks[ws.socket].state = "CONNECTING"
  /\ ws.socks[ws.socket].waiters = {"login"}
  /\ SumO(ws.pendInit) = 0 /\ ws.retryCount = 1

\* ---- past the retry ceiling (SpecCap)
\* what a connect() call made with retryCount above 10 does: it adds 1 and
\* rejects, without discovery, socket or timer
RejectedCall ==
  /\ ws'.retryCount = ws.retryCount + 1
  /\ last'.res = "rejected"
  /\ ws'.pendInit = ws.pendInit
  /\ NumSocks(ws') <= NumSocks(ws)
  /\ NumConnecting(ws') <= NumConnecting(ws)
  /\ last'.op = "Login"
       => /\ ws'.login = "idle" /\ ws'.timers = ws.timers
          /\ ws'.socks = ws.socks /\ ws'.socket = ws.socket
  /\ last'.op = "TimerFire"
       => /\ ws'.timers = ws.timers - 1
          /\ ws'.socks = ws.socks /\ ws'.socket = ws.socket
  /\ last'.op \in {"SockClose", "Heartbeat"} => ws'.reconnecting = "rejected"

\* C27 (as stated): once retryCount has exceeded 10 it never comes down
\* again, and every step that calls connect() finds the call rejected with
\* no discovery started, no socket constructed and no reconnect timer armed
\* by the call.
C27_RejectsPermanently ==
  [][ws.retryCount > MaxRetryAttempts
       => /\ ws'.retryCount >= ws.retryCount
          /\ ws'.retryCount > ws.retryCount => RejectedCall]_vars

\* C27 (amended): retryCount, once above 10, comes down only when an
\* Authenticated packet resets it; while it is above 10 every step that
\* calls connect() finds the call rejected with no discovery started, no
\* socket constructed and no reconnect timer armed by the call.
C27_RejectsUntilAuthenticated ==
  [][ws.retryCount > MaxRetryAttempts
       => /\ ws'.retryCount < ws.retryCount
               => \E s \in SockIds : Authenticated(s)
          /\ ws'.retryCount > ws.retryCount => RejectedCall]_vars

\* the connect() chained behind a heartbeat-triggered destroy() is rejected
\* after an earlier call had already been
C27_Witness ==
  /\ last.op = "SockClose" /\ last.res = "rejected"
  /\ ws.reconnecting = "rejected"
  /\ ws.retryCount = MaxRetryAttempts + 2

\* ---- the two dispatchers (SpecRest)
OnSurface(r, sf) == [r EXCEPT !.surface = sf]

\* C28: in every reachable state of a request, the primary-API dispatcher
\* and the media dispatcher take the same step on every input that can come
\* next (a new request, with or without token; every outcome of the
\* transport call in flight; the end of the retry delay): the same attempts,
\* the same delays and the same result, the surface apart.
C28_SameRetrySemantics ==
  LET r == OnSurface(req, "rest")
      c == OnSurface(req, "cdn")
  IN /\ req.pc = "idle"
       => OnSurface(StartRequest("cdn", ws.token, opts), "rest")
            = StartRequest("rest", ws.token, opts)
     /\ req.pc = "inflight"
       => \A st \in Statuses \cup {NoStatus, Ok} :
            OnSurface(OnResponse(c, ws.token, opts, st), "rest")
              = OnResponse(r, ws.token, opts, st)
     /\ req.pc = "waiting"
       => OnSurface(OnDelay(c, ws.token, opts), "rest")
            = OnDelay(r, ws.token, opts)

\* a media request answered 429, then 503, then success
C28_Witness ==
  /\ req.surface = "cdn" /\ req.pc = "done" /\ req.result = "ok"
  /\ ResponseSeq = <<429, 503, Ok>>
  /\ NumCalls = 3 /\ Len(LogOf("wait")) = 2

\* ---- requests and the connection lifecycle (SpecLife)
\* C29 (as stated): a request whose transport call has been issued goes on
\* as if the client had never been destroyed: each of its later steps is
\* the step it takes with the token it was issued with, and no step of the
\* gateway or of client.destroy() changes the request.
C29_RequestIgnoresLifecycle ==
  [][/\ (req.pc = "inflight" /\ req' # req)
          => \E st \in LifeStatuses : req' = OnResponse(req, TRUE, opts, st)
     /\ (req.pc = "waiting" /\ req' # req)
          => req' = OnDelay(req, TRUE, opts)
     /\ ws' # ws => req' = req]_vars

\* ---- defaults of the options (SpecOptions)
\* C30 (as stated): every option the user leaves out has its default, also
\* when the user passes a ws or rest object that sets other keys only: the
\* heartbeat interval read is 30000, the request timeout 15000, the request
\* retry cap 3, and auto-reconnect is enabled, so that a heartbeat tick that
\* lost its pong starts a reconnect cycle.
C30_DefaultsApply ==
  [][LET g == opts.given
     IN /\ g.ws.heartbeatInterval = Undef => HeartbeatInterval(opts) = 30000
        /\ g.rest.timeout = Undef
             => Timeout(opts) = 15000 /\ CdnTimeout(opts) = 15000
        /\ g.rest.retries = Undef => Retries(opts) = 3 /\ CdnRetries(opts) = 3
        /\ (g.ws.reconnect = Undef /\ ~ws.lastPongAck /\ Heartbeat(1, RetryCap))
             => /\ ws'.timers > ws.timers
                /\ ws'.reconnecting # "null"]_vars

\* ---- readiness and the live socket (Spec)
\* C31 (as stated): whenever client.isReady() is true (readyAt is set), the
\* gateway's ready flag is true.
C31_IsReadyMeansReady == ws.readyAt => ws.ready

\* C33 (as stated): whenever ready is true, connected is true and there is
\* a socket.
C33_ReadyImpliesConnected == ws.ready => (ws.connected /\ ws.socket # 0)

\* C34 (as stated): at most one socket is connecting or open at any time,
\* and it is this.socket: a socket that destroy() dropped is closed.
C34_OneLiveSocket ==
  /\ NumSocks(ws) - Cardinality({s \in SockIds : ws.socks[s].state = "CLOSING"}) <= 1
  /\ \A s \in SockIds :
       ws.socks[s].state \in {"CONNECTING", "OPEN"} => ws.socket = s

\* C37 (as stated): a reconnect timer that fires after an Authenticated
\* packet has reset retryCount, with the connection still up, leaves
\* retryCount at 0.
C37_StaleTimersFree ==
  [][(ws.connected /\ ws.retryCount = 0 /\ TimerFire(RetryCap))
       => ws'.retryCount = 0]_vars

\* ---- the first frame (SpecSend)
\* C35 (as stated): the frames written in the step in which this.socket
\* opens begin with the Authenticate frame.
C35_AuthenticateFirst ==
  [][\A s \in SockIds :
       (ws.socket = s /\ SockOpen(s, RetryCap) /\ last'.out # <<>>)
         => last'.out[1].frame = "AUTH"]_vars

\* ---- a failed member prefetch (SpecPackets)
\* C39: when a member fetch of a Ready handler fails, the step emits
\* exactly one event, on the error channel, and no Ready event; the
\* readiness flag is as before (false on a connection that was not ready),
\* and sockets, connected, timers and the heartbeat are untouched.
C39_PrefetchFailureReported ==
  [][last'.op = "ReadyFail"
       => /\ EmitSeq(last') = <<"ERROR">>
          /\ ws'.ready = ws.ready
          /\ ws'.socket = ws.socket /\ ws'.socks = ws.socks
          /\ ws'.connected = ws.connected
          /\ ws'.timers = ws.timers /\ ws'.hbTimers = ws.hbTimers
          /\ SumI(ws'.ingest) = SumI(ws.ingest) - 1]_vars

\* a member fetch failed on an open connection that is not ready
C39_Witness ==
  /\ last.op = "ReadyFail" /\ EmitSeq(last) = <<"ERROR">>
  /\ ~ws.ready /\ IsOpen(ws) /\ ws.connected
  /\ Cardinality(ws.servers) >= 2 /\ SumI(ws.ingest) = 0

\* ---- reconnection against a gateway that never accepts (SpecFailFair)
Quiet(w) ==
  /\ w.socket = 0 /\ w.timers = 0 /\ SumO(w.pendInit) = 0
  /\ \A s \in SockIds : w.socks[s].state = "FREE"

\* C32: while every socket closes without opening, at most 10 sockets are
\* ever constructed, and from some point on there is no socket, no pending
\* reconnect timer and no connect() in progress: nothing is left that would
\* call connect() again.
C32_ReconnectionTerminates ==
  /\ [](ws.made <= MaxRetryAttempts)
  /\ <>[]Quiet(ws)

\* the 11th connect() of one login has been refused after 10 sockets
C32_Witness ==
  /\ ws.made = 10 /\ ws.retryCount = 11 /\ Quiet(ws)
  /\ ws.token /\ last.op = "TimerFire" /\ last.res = "rejected"

\* ---- the handle of a reconnect cycle (SpecCapFair)
\* C36 (as stated): whenever this.reconnecting holds a promise, it is
\* eventually null again.
C36_HandleEventuallyCleared ==
  (ws.reconnecting # "null") ~> (ws.reconnecting = "null")

\* ---- termination of a request (SpecRestFair)
\* C38: whatever the transport calls return, one request makes at most
\* 1 + retries transport calls (4 with the default cap of 3), and a request
\* that has been started is eventually settled with a value or an error.
C38_RequestTerminates ==
  /\ [](NumCalls <= 1 + ConfiguredCap)
  /\ (req.pc \in {"inflight", "waiting"}) ~> (req.pc = "done")

\* the default cap is used up by failures of every kind: 4 transport calls,
\* then the max-retries error
C38_Witness ==
  /\ req.pc = "done" /\ req.result = "maxRetries" /\ opts.retries = Undef
  /\ ResponseSeq = <<503, 404, NoStatus, 429>> /\ NumCalls = 4

\* ---- members and emojis of a Ready packet (SpecPackets)
\* C40 (as stated): once a Ready packet has been taken in, the emoji of
\* every server of the packet is in that server's emoji map and, without
\* member prefetch, the member entry of every server of the packet is in
\* that server's member cache.
C40_ReadyEntriesStored ==
  [][\A s \in SockIds, us \in SUBSET UserIds, n \in 0..MaxServers :
       Ready(s, us, n, RetryCap)
         => /\ 1..n \subseteq ws'.emojis
            /\ ~opts.fetchMembers => 1..n \subseteq ws'.members]_vars
====
